---- MODULE Spec2Model ----
(***************************************************************************)
(* LeftNavRepositorySection (dagster-ui, ui-core/src/nav): the left-nav    *)
(* section that reads {allRepos, loading, visibleRepos, toggleVisible}     *)
(* from the WorkspaceContext and renders a placeholder, the populated list *)
(* or one of two "No definitions" messages, plus the location-state        *)
(* observer and the repository selector.                                   *)
(*                                                                         *)
(* A render is a pure function of the context value; its result is kept as *)
(* the rendered element tree.  The WorkspaceContext provider and the       *)
(* RepoNavItem selector live outside this file; they appear as the         *)
(* environment that changes the context value and fires onToggle.          *)
(***************************************************************************)
EXTENDS Naturals, Sequences, FiniteSets, TLC

VARIABLES ctx, rendered, out, toggles, calls, pending, ancestorRenders, republished

vars == <<ctx, rendered, out, toggles, calls, pending, ancestorRenders, republished>>

----------------------------------------------------------------------------
(* Bounds *)

\* How many times the selector fires onToggle in one run.
MaxCalls == 1

\* How many times an ancestor re-renders on its own in one run.
MaxAncestorRenders == 1

\* How many times the provider publishes a new value object whose four
\* consumed fields are the ones of the value before.
MaxRepublished == 1

----------------------------------------------------------------------------
(* Values *)

\* The repositories (DagsterRepoOption / RepoAddress identities) in play.
Repos == {"A", "B"}

\* Identities of the toggleVisible function the context hands out.
FnIds == {"tv1", "tv2"}

\* JavaScript values a context field can hold at run time.
Undefined == [tag |-> "undefined"]
Arr(s) == [tag |-> "array", val |-> s]
IsArray(x) == x.tag = "array"

\* Arrays of distinct repositories, in any order.
RepoSeqs ==
  {<<>>} \cup {<<r>> : r \in Repos}
         \cup {<<r, s>> : <<r, s>> \in {p \in Repos \X Repos : p[1] # p[2]}}

\* RepoAddress[] payloads the selector can pass to onToggle.
AddrSeqs ==
  {<<>>} \cup {<<r>> : r \in Repos} \cup {<<r, s>> : <<r, s>> \in Repos \X Repos}

Range(s) == {s[i] : i \in 1..Len(s)}

\* s is t with some elements left out, order kept.
IsSubSeq(s, t) ==
  /\ Range(s) \subseteq Range(t)
  /\ \A i, j \in 1..Len(s) :
       i < j => \E k, l \in 1..Len(t) : k < l /\ t[k] = s[i] /\ t[l] = s[j]

\* One invocation of the context's toggleVisible, as the context sees it.
Call(fn, addrs) == [fn |-> fn, args |-> addrs]

----------------------------------------------------------------------------
(* The element tree *)

TypeError == [kind |-> "TypeError"]
Unmounted == [kind |-> "unmounted"]

\* <div style={{flex: 1}} />
Placeholder == [kind |-> "div", style |-> "flex: 1", children |-> <<>>]

\* <div style={{overflow: 'hidden'}}><SectionedLeftNav /></div>
PopulatedList ==
  [kind |-> "div", style |-> "overflow: hidden", children |-> <<"SectionedLeftNav">>]

\* <EmptyState><Box><span>title</span><Body>body</Body></Box></EmptyState>
EmptyState(title, body) == [kind |-> "EmptyState", title |-> title, body |-> body]

EmptySelection ==
  EmptyState("No definitions", "Select a code location to see a list of jobs")

EmptyWorkspace ==
  EmptyState("No definitions",
             "When you add a code location, your definitions will appear here")

----------------------------------------------------------------------------
(* LoadedRepositorySection *)

\* listContent with the allRepos test made first.
listContent_allFirst(allRepos, visibleRepos) ==
  IF ~IsArray(allRepos) THEN TypeError
  ELSE IF Len(allRepos.val) = 0 THEN EmptyWorkspace
  ELSE IF ~IsArray(visibleRepos) THEN TypeError
  ELSE IF Len(visibleRepos.val) # 0 THEN PopulatedList
  ELSE EmptySelection

\* listContent with the two messages exchanged.
listContent_swapped(allRepos, visibleRepos) ==
  IF ~IsArray(visibleRepos) THEN TypeError
  ELSE IF Len(visibleRepos.val) # 0 THEN PopulatedList
  ELSE IF ~IsArray(allRepos) THEN TypeError
  ELSE IF Len(allRepos.val) > 0 THEN EmptyWorkspace
  ELSE EmptySelection

\* listContent reading the lengths as (x ?? []).length.
listContent_lenient(allRepos, visibleRepos) ==
  LET len(x) == IF IsArray(x) THEN Len(x.val) ELSE 0 IN
  IF len(visibleRepos) # 0 THEN PopulatedList
  ELSE IF len(allRepos) > 0 THEN EmptySelection
  ELSE EmptyWorkspace

\* listContent with the first test written visibleRepos.length >= 0.
listContent_always(allRepos, visibleRepos) ==
  IF ~IsArray(visibleRepos) THEN TypeError
  ELSE IF Len(visibleRepos.val) >= 0 THEN PopulatedList
  ELSE IF ~IsArray(allRepos) THEN TypeError
  ELSE IF Len(allRepos.val) > 0 THEN EmptySelection
  ELSE EmptyWorkspace

\* The list area.  x.length on undefined throws a TypeError; the second
\* length is read only when the first test fails.
listContent(allRepos, visibleRepos) ==
  IF ~IsArray(visibleRepos) THEN TypeError
  ELSE IF Len(visibleRepos.val) # 0 THEN PopulatedList
  ELSE IF ~IsArray(allRepos) THEN TypeError
  ELSE IF Len(allRepos.val) > 0 THEN EmptySelection
  ELSE EmptyWorkspace

\* onToggle written as (addrs) => toggleVisible(addrs.slice(1)).
onToggle_sliced(toggleVisible) ==
  [a \in AddrSeqs |-> <<Call(toggleVisible, IF a = <<>> THEN a ELSE Tail(a))>>]

\* The value of the onToggle prop: toggleVisible itself.  A function value is
\* modelled by what invoking it does: for each payload, the invocations of
\* the context's toggleVisible it makes.
onToggle(toggleVisible) ==
  [a \in AddrSeqs |-> <<Call(toggleVisible, a)>>]

\* LoadedRepositorySection with the selector's props exchanged and no observer.
LoadedRepositorySection_props(allRepos, visibleRepos, toggleVisible) ==
  LET lc == listContent(allRepos, visibleRepos) IN
  IF lc.kind = "TypeError" THEN TypeError
  ELSE [kind     |-> "Container",
        list     |-> lc,
        observer |-> "none",
        selector |-> [kind     |-> "RepoNavItem",
                      allRepos |-> visibleRepos,
                      selected |-> allRepos,
                      onToggle |-> onToggle(toggleVisible)]]

\* <Container><ListContainer>{listContent()}</ListContainer>
\*   <RepositoryLocationStateObserver /><RepoNavItem ... /></Container>
\* A throw inside listContent() aborts the render.
LoadedRepositorySection(allRepos, visibleRepos, toggleVisible) ==
  LET lc == listContent(allRepos, visibleRepos) IN
  IF lc.kind = "TypeError" THEN TypeError
  ELSE [kind     |-> "Container",
        list     |-> lc,
        observer |-> "RepositoryLocationStateObserver",
        selector |-> [kind     |-> "RepoNavItem",
                      allRepos |-> allRepos,
                      selected |-> visibleRepos,
                      onToggle |-> onToggle(toggleVisible)]]

----------------------------------------------------------------------------
(* LeftNavRepositorySection *)

\* The gate written if (loading && !visibleRepos.length).
LeftNavRepositorySection_gate(c) ==
  IF c.loading /\ IsArray(c.visibleRepos) /\ Len(c.visibleRepos.val) = 0
    THEN Placeholder
    ELSE LoadedRepositorySection(c.allRepos, c.visibleRepos, c.toggleVisible)

\* The root wrapper: the placeholder while loading, else the loaded section
\* with the three other context values.
LeftNavRepositorySection(c) ==
  IF c.loading
    THEN Placeholder
    ELSE LoadedRepositorySection(c.allRepos, c.visibleRepos, c.toggleVisible)

\* The components mounted by an element tree.
Mounted(tree) ==
  IF tree.kind = "Container"
    THEN (IF tree.list = PopulatedList THEN {"SectionedLeftNav"} ELSE {})
         \cup (IF tree.observer = "none" THEN {} ELSE {tree.observer})
         \cup {tree.selector.kind}
    ELSE {}

----------------------------------------------------------------------------
(* Context values *)

\* Context values as the WorkspaceContext contract describes them: two
\* arrays, visibleRepos a selection out of allRepos, a flag and a function.
WorkspaceStates ==
  {[allRepos |-> Arr(a), visibleRepos |-> Arr(v), loading |-> l, toggleVisible |-> f] :
     <<a, v>> \in {p \in RepoSeqs \X RepoSeqs : IsSubSeq(p[2], p[1])},
     l \in BOOLEAN, f \in FnIds}

\* Every value the two array fields can hold at run time, related or not.
AnyRepos == {Undefined} \cup {Arr(s) : s \in RepoSeqs}

AnyStates ==
  [allRepos : AnyRepos, visibleRepos : AnyRepos, loading : BOOLEAN,
   toggleVisible : FnIds]

----------------------------------------------------------------------------
(* Steps *)

\* A render that empties visibleRepos in place (visibleRepos.splice(0)).
Render_mutating ==
  /\ out.kind # "TypeError"
  /\ pending
  /\ pending' = FALSE
  /\ out' = LeftNavRepositorySection(ctx)
  /\ rendered' = ctx
  /\ ctx' = [ctx EXCEPT !.visibleRepos =
               IF IsArray(@) THEN Arr(<<>>) ELSE @]
  /\ UNCHANGED <<toggles, calls, ancestorRenders, republished>>

\* One render pass of LeftNavRepositorySection, when one is scheduled: on
\* mount, and again whenever the WorkspaceContext value read by useContext
\* has been replaced.  It reads the context and returns a tree; an uncaught
\* throw leaves the section unmounted for good.
Render ==
  /\ out.kind # "TypeError"
  /\ pending
  /\ pending' = FALSE
  /\ out' = LeftNavRepositorySection(ctx)
  /\ rendered' = ctx
  /\ UNCHANGED <<ctx, toggles, calls, ancestorRenders, republished>>

\* The mounted selector invokes its onToggle prop with a payload.
SelectorToggle(addrs) ==
  /\ out.kind = "Container"
  /\ Len(toggles) < MaxCalls
  /\ toggles' = Append(toggles, [tv |-> rendered.toggleVisible, addrs |-> addrs])
  /\ calls' = calls \o out.selector.onToggle[addrs]
  /\ UNCHANGED <<ctx, rendered, out, pending, ancestorRenders, republished>>

\* The WorkspaceContext provider publishes a new value.  Its loading flag
\* changes (a fetch finishing or starting) ...
LoadingChanges ==
  /\ ctx' = [ctx EXCEPT !.loading = ~@]
  /\ pending' = TRUE
  /\ UNCHANGED <<rendered, out, toggles, calls, ancestorRenders, republished>>

\* ... or the repository lists change (locations added or removed, the
\* selection changed), visibleRepos staying a selection out of allRepos ...
ReposChange ==
  /\ \E w \in WorkspaceStates :
       /\ w.loading = ctx.loading
       /\ w.toggleVisible = ctx.toggleVisible
       /\ w # ctx
       /\ ctx' = w
  /\ pending' = TRUE
  /\ UNCHANGED <<rendered, out, toggles, calls, ancestorRenders, republished>>

\* ... or toggleVisible is a new closure.
ToggleVisibleChanges ==
  /\ \E f \in FnIds \ {ctx.toggleVisible} :
       ctx' = [ctx EXCEPT !.toggleVisible = f]
  /\ pending' = TRUE
  /\ UNCHANGED <<rendered, out, toggles, calls, ancestorRenders, republished>>

\* The provider publishes a new value object that holds the same allRepos,
\* loading, visibleRepos and toggleVisible as the one before (the provider
\* re-rendered, or a field this component does not read changed).  useContext
\* compares the value object itself, so a render is scheduled.
ValueRepublished ==
  /\ republished < MaxRepublished
  /\ republished' = republished + 1
  /\ pending' = TRUE
  /\ UNCHANGED <<ctx, rendered, out, toggles, calls, ancestorRenders>>

\* An ancestor re-render with the component not wrapped in React.memo.
AncestorRerender_unmemoized ==
  /\ rendered # Unmounted
  /\ ancestorRenders < MaxAncestorRenders
  /\ ancestorRenders' = ancestorRenders + 1
  /\ pending' = TRUE
  /\ UNCHANGED <<ctx, rendered, out, toggles, calls, republished>>

\* An ancestor of the mounted component re-renders and the context value is
\* the same object.  The component is wrapped in React.memo and takes no
\* props, so the props compare equal and no render is scheduled.
AncestorRerender ==
  /\ rendered # Unmounted
  /\ ancestorRenders < MaxAncestorRenders
  /\ ancestorRenders' = ancestorRenders + 1
  /\ UNCHANGED <<ctx, rendered, out, toggles, calls, pending, republished>>

Init ==
  /\ ctx \in WorkspaceStates
  /\ rendered = Unmounted
  /\ out = Unmounted
  /\ toggles = <<>>
  /\ calls = <<>>
  /\ pending = TRUE
  /\ ancestorRenders = 0
  /\ republished = 0

Next ==
  \/ Render
  \/ \E addrs \in AddrSeqs : SelectorToggle(addrs)
  \/ LoadingChanges
  \/ ReposChange
  \/ ToggleVisibleChanges

Spec == Init /\ [][Next]_vars

\* The component mounted once under an arbitrary context value, including
\* values with a missing array and selections outside allRepos.
InitProps ==
  /\ ctx \in AnyStates
  /\ rendered = Unmounted
  /\ out = Unmounted
  /\ toggles = <<>>
  /\ calls = <<>>
  /\ pending = TRUE
  /\ ancestorRenders = 0
  /\ republished = 0

NextProps ==
  \/ Render
  \/ \E addrs \in AddrSeqs : SelectorToggle(addrs)

SpecProps == InitProps /\ [][NextProps]_vars

\* The scheduling of renders: context values published, ancestors
\* re-rendering, and the renders React runs in answer.  A scheduled render is
\* eventually run.
NextMemo ==
  \/ Render
  \/ LoadingChanges
  \/ ReposChange
  \/ ToggleVisibleChanges
  \/ ValueRepublished
  \/ AncestorRerender

SpecMemo == Init /\ [][NextMemo]_vars /\ WF_vars(Render)

----------------------------------------------------------------------------
(* Properties *)

HasRendered == rendered # Unmounted

\* C1: a render under loading = true yields only the empty placeholder: no
\* list view, no empty-state message, no child component mounted, whatever
\* allRepos and visibleRepos hold.
C1_LoadingPlaceholder ==
  (HasRendered /\ rendered.loading) =>
    /\ out.kind = "div"
    /\ out.style = "flex: 1"
    /\ out.children = <<>>
    /\ Mounted(out) = {}

C1_Witness ==
  /\ HasRendered
  /\ rendered.loading
  /\ IsArray(rendered.visibleRepos)
  /\ Len(rendered.visibleRepos.val) > 0
  /\ out.kind = "div"

\* C2: a render with loading = false and a non-empty visibleRepos shows the
\* populated list (SectionedLeftNav) and no empty-state message, whatever
\* allRepos holds.
C2_PopulatedList ==
  (/\ HasRendered
   /\ ~rendered.loading
   /\ IsArray(rendered.visibleRepos)
   /\ Len(rendered.visibleRepos.val) > 0) =>
    /\ out.kind = "Container"
    /\ out.list.kind = "div"
    /\ out.list.children = <<"SectionedLeftNav">>
    /\ "SectionedLeftNav" \in Mounted(out)

C2_Witness ==
  /\ HasRendered
  /\ ~rendered.loading
  /\ rendered.allRepos = Arr(<<>>)
  /\ IsArray(rendered.visibleRepos)
  /\ Len(rendered.visibleRepos.val) > 0
  /\ out.kind = "Container"
  /\ out.list.kind = "div"

\* C3: a render with loading = false, visibleRepos empty and allRepos
\* non-empty shows "No definitions" / "Select a code location to see a list
\* of jobs", and neither the list view nor the other message.
C3_EmptySelection ==
  (/\ HasRendered
   /\ ~rendered.loading
   /\ IsArray(rendered.visibleRepos) /\ IsArray(rendered.allRepos)
   /\ Len(rendered.visibleRepos.val) = 0
   /\ Len(rendered.allRepos.val) > 0) =>
    /\ out.kind = "Container"
    /\ out.list.kind = "EmptyState"
    /\ out.list.title = "No definitions"
    /\ out.list.body = "Select a code location to see a list of jobs"
    /\ "SectionedLeftNav" \notin Mounted(out)

C3_Witness ==
  /\ HasRendered
  /\ ~rendered.loading
  /\ rendered.allRepos = Arr(<<"A", "B">>)
  /\ rendered.visibleRepos = Arr(<<>>)
  /\ out.kind = "Container"
  /\ out.list.kind = "EmptyState"
  /\ out.selector.allRepos = Arr(<<"A", "B">>)
  /\ out.selector.selected = Arr(<<>>)

\* C4: a render with loading = false and both arrays empty shows
\* "No definitions" / "When you add a code location, your definitions will
\* appear here", and neither the list view nor the other message.
C4_EmptyWorkspace ==
  (/\ HasRendered
   /\ ~rendered.loading
   /\ IsArray(rendered.visibleRepos) /\ IsArray(rendered.allRepos)
   /\ Len(rendered.visibleRepos.val) = 0
   /\ Len(rendered.allRepos.val) = 0) =>
    /\ out.kind = "Container"
    /\ out.list.kind = "EmptyState"
    /\ out.list.title = "No definitions"
    /\ out.list.body =
         "When you add a code location, your definitions will appear here"
    /\ "SectionedLeftNav" \notin Mounted(out)

C4_Witness ==
  /\ HasRendered
  /\ ~rendered.loading
  /\ rendered.allRepos = Arr(<<>>)
  /\ rendered.visibleRepos = Arr(<<>>)
  /\ out.kind = "Container"
  /\ out.list.kind = "EmptyState"

\* C5: every render with loading = false mounts, next to one of the three
\* list contents, the location-state observer and the selector, and the
\* selector's allRepos, selected and onToggle are the allRepos, visibleRepos
\* and toggleVisible of the context value read in that render.
C5_ObserverAndSelector ==
  (HasRendered /\ ~rendered.loading) =>
    /\ out.kind = "Container"
    /\ out.list \in {PopulatedList, EmptySelection, EmptyWorkspace}
    /\ "RepositoryLocationStateObserver" \in Mounted(out)
    /\ "RepoNavItem" \in Mounted(out)
    /\ out.selector.allRepos = rendered.allRepos
    /\ out.selector.selected = rendered.visibleRepos
    /\ \A a \in AddrSeqs :
         out.selector.onToggle[a] = <<Call(rendered.toggleVisible, a)>>

C5_Witness ==
  /\ HasRendered
  /\ ~rendered.loading
  /\ rendered.allRepos = Arr(<<"B", "A">>)
  /\ rendered.visibleRepos = Arr(<<"A">>)
  /\ rendered.toggleVisible = "tv2"
  /\ out.kind = "Container"
  /\ out.selector.selected = Arr(<<"A">>)

\* C6: each invocation of the selector's onToggle with a payload makes
\* exactly one invocation of the context's toggleVisible, with the same
\* payload in the same order, and toggleVisible is invoked at no other time.
C6_ToggleForwarded ==
  /\ Len(calls) = Len(toggles)
  /\ \A i \in 1..Len(toggles) :
       calls[i] = [fn |-> toggles[i].tv, args |-> toggles[i].addrs]

C6_Witness ==
  /\ Len(toggles) > 0
  /\ Len(calls) > 0
  /\ toggles[1].addrs = <<"B", "A">>
  /\ calls[1].args = <<"B", "A">>

\* C7 as stated: with loading = false and allRepos or visibleRepos missing,
\* the render does not raise and shows what it would show for an empty array
\* in place of the missing one.
C7_MissingIsEmpty ==
  (/\ HasRendered
   /\ ~rendered.loading
   /\ (~IsArray(rendered.allRepos) \/ ~IsArray(rendered.visibleRepos))) =>
    LET len(x) == IF IsArray(x) THEN Len(x.val) ELSE 0 IN
    /\ out.kind = "Container"
    /\ len(rendered.visibleRepos) = 0 => out.list.kind = "EmptyState"

\* C7 amended: with loading = false the render raises a TypeError exactly
\* when visibleRepos is missing, or visibleRepos is empty and allRepos is
\* missing; with both arrays present it never raises, and with a non-empty
\* visibleRepos a missing allRepos is not read by the list area.
C7_MissingRaises ==
  (HasRendered /\ ~rendered.loading) =>
    /\ out.kind = "TypeError" <=>
         \/ ~IsArray(rendered.visibleRepos)
         \/ /\ Len(rendered.visibleRepos.val) = 0
            /\ ~IsArray(rendered.allRepos)
    /\ out.kind # "TypeError" => out.kind = "Container"

C7_Witness ==
  /\ HasRendered
  /\ ~rendered.loading
  /\ rendered.visibleRepos = Undefined
  /\ out.kind = "TypeError"

\* C8 as stated: once the loaded section is shown, the placeholder is never
\* shown again.
C8_ReadyIsFinal ==
  [][out.kind = "Container" => out'.kind = "Container"]_vars

\* C8 amended: the wrapper keeps no state; after every render the
\* placeholder is shown exactly when loading was true in the context value
\* of that render (so the section returns to the placeholder when loading
\* becomes true again), and otherwise the list content is the one that the
\* allRepos and visibleRepos of that render select.
C8_GateFollowsLoading ==
  HasRendered =>
    /\ out.kind = "div" <=> rendered.loading
    /\ ~rendered.loading =>
         /\ out.kind = "Container"
         /\ out.list = PopulatedList <=> Len(rendered.visibleRepos.val) > 0
         /\ out.list = EmptySelection <=>
              /\ Len(rendered.visibleRepos.val) = 0
              /\ Len(rendered.allRepos.val) > 0
         /\ out.list = EmptyWorkspace <=>
              /\ Len(rendered.visibleRepos.val) = 0
              /\ Len(rendered.allRepos.val) = 0

\* The placeholder is shown again after the selector of a loaded section
\* has been used.
C8_Witness ==
  /\ HasRendered
  /\ rendered.loading
  /\ out.kind = "div"
  /\ Len(calls) > 0

\* C9: no step of the component (a render, or the selector invoking
\* onToggle) changes allRepos or visibleRepos; they change only in steps of
\* the context itself.
C9_RenderLeavesRepos ==
  [][((pending /\ ~pending') \/ rendered' # rendered \/ out' # out
        \/ toggles' # toggles \/ calls' # calls) =>
       /\ ctx'.allRepos = ctx.allRepos
       /\ ctx'.visibleRepos = ctx.visibleRepos]_vars

C9_Witness ==
  /\ HasRendered
  /\ rendered = ctx
  /\ out.kind = "Container"
  /\ Len(ctx.visibleRepos.val) = 2
  /\ Len(calls) > 0

C11_OneViewState ==
  (HasRendered /\ IsArray(rendered.allRepos) /\ IsArray(rendered.visibleRepos)) =>
    LET isLoading   == out.kind = "div" /\ out.children = <<>>
        isPopulated == out.kind = "Container" /\ out.list = PopulatedList
        isEmptySel  == out.kind = "Container" /\ out.list = EmptySelection
        isEmptyWs   == out.kind = "Container" /\ out.list = EmptyWorkspace
        n(b)        == IF b THEN 1 ELSE 0
        nAll        == Len(rendered.allRepos.val)
        nVisible    == Len(rendered.visibleRepos.val)
    IN  /\ n(isLoading) + n(isPopulated) + n(isEmptySel) + n(isEmptyWs) = 1
        /\ isLoading   <=> rendered.loading
        /\ isPopulated <=> (~rendered.loading /\ nVisible > 0)
        /\ isEmptySel  <=> (~rendered.loading /\ nVisible = 0 /\ nAll > 0)
        /\ isEmptyWs   <=> (~rendered.loading /\ nVisible = 0 /\ nAll = 0)
        /\ out.kind = "Container" =>
             (isPopulated <=> Len(out.selector.selected.val) > 0)

\* A selection outside allRepos: the view follows visibleRepos alone.
C11_Witness ==
  /\ HasRendered
  /\ ~rendered.loading
  /\ rendered.allRepos = Arr(<<>>)
  /\ rendered.visibleRepos = Arr(<<"B">>)
  /\ out.kind = "Container"
  /\ out.list = PopulatedList
  /\ out.selector.selected = Arr(<<"B">>)

\* C12 as stated: a render of the component is scheduled only by a step
\* that changes allRepos, loading, visibleRepos or toggleVisible.
C12_OnlyConsumedValues ==
  [][(~pending /\ pending') => ctx' # ctx]_vars

\* C12 amended: an ancestor re-render under an unchanged context value
\* schedules no render; a render is scheduled exactly by the publication of
\* a new context value, whether or not one of the four consumed fields
\* differs; a scheduled render is eventually run, and the run reads the
\* value current at that time.
C12_RerenderOnContextValue ==
  /\ [][ancestorRenders' # ancestorRenders =>
          (pending' = pending /\ rendered' = rendered /\ out' = out)]_vars
  /\ [][(~pending /\ pending') => (ctx' # ctx \/ republished' # republished)]_vars
  /\ [][(ctx' # ctx \/ republished' # republished) => pending']_vars
  /\ [][(pending /\ ~pending') => (rendered' = ctx /\ ctx' = ctx)]_vars
  /\ [](HasRendered /\ rendered # ctx => pending)
  /\ pending ~> (~pending /\ rendered = ctx)

\* After an ancestor re-render and a republished value, the component has
\* rendered again and nothing is scheduled.
C12_Witness ==
  /\ HasRendered
  /\ ancestorRenders > 0
  /\ republished > 0
  /\ ~pending
  /\ rendered = ctx

====
